---- MODULE Spec2Model ----
(***************************************************************************)
(* TinySwallow HTTP tokenizer service                                      *)
(* (work/opt/m5stack/scripts/tokenizer_tinyswallow-1.5b-ax630c.py).        *)
(*                                                                         *)
(* The model has three layers:                                             *)
(*   - the tokenizer capability (AutoTokenizer) as a small concrete        *)
(*     ChatML-like tokenizer that may also fail on any call,               *)
(*   - the adapter TokenizerHttp and the handler Request (do_GET, do_POST) *)
(*     as operators computed the way the code computes them,               *)
(*   - main() and HTTPServer.serve_forever as a state machine: argument    *)
(*     parsing, tokenizer load, bind, context set-up, the single-threaded  *)
(*     accept/handle loop, interrupt.                                      *)
(*                                                                         *)
(* Strings that the code takes apart are sequences of pieces: a path is a  *)
(* sequence of "/" and name pieces, a rendered prompt or decoded text is a *)
(* sequence of text pieces, an f-string error is <<prefix, detail>>.       *)
(***************************************************************************)
EXTENDS Integers, Sequences, FiniteSets, TLC

(* ------------------------------ bounds --------------------------------- *)

\* number of clients that may hold a connection to the listener at once
NumClients == 2

\* most trailing slashes a client appends to a request path
MaxTrail == 2

Clients == 1..NumClients

(* ------------------------- JSON / Python values ------------------------ *)

\* A parsed JSON value, one shape for every type: t is the Python type.
Absent == [t |-> "absent", s |-> "", b |-> FALSE, l |-> <<>>]

JStr(x) == [t |-> "str", s |-> x, b |-> FALSE, l |-> <<>>]

JBool(x) == [t |-> "bool", s |-> "", b |-> x, l |-> <<>>]

JList(x) == [t |-> "list", s |-> "", b |-> FALSE, l |-> x]

\* Python truthiness: bool(v), `if v:`
Truthy(v) ==
    CASE v.t = "str" -> v.s # ""
      [] v.t = "bool" -> v.b
      [] v.t = "list" -> v.l # <<>>
      [] OTHER -> FALSE

\* isinstance(v, list)
IsList(v) == v.t = "list"

\* The fields of a request object the handler looks at.
FieldNames == {"text", "system", "messages", "add_generation_prompt", "token_ids"}

EmptyObj == [k \in FieldNames |-> Absent]

\* `k in d`
Has(d, k) == d[k].t # "absent"

\* d.get(k, default)
Get(d, k, default) == IF Has(d, k) THEN d[k] ELSE default

(* ------------------------- tokenizer capability ------------------------ *)

\* The vocabulary of the loaded tokenizer: text piece -> token id.
Vocab ==
    [p \in {"<|im_start|>", "<|im_end|>", "system", "user", "assistant",
            "hi", "sys", "dflt", "ignored"} |->
        CASE p = "<|im_start|>" -> 1
          [] p = "<|im_end|>" -> 2
          [] p = "system" -> 3
          [] p = "user" -> 4
          [] p = "assistant" -> 5
          [] p = "hi" -> 6
          [] p = "sys" -> 7
          [] p = "dflt" -> 8
          [] p = "ignored" -> 9]

VocabIds == {Vocab[p] : p \in DOMAIN Vocab}

PieceOf(i) == CHOOSE p \in DOMAIN Vocab : Vocab[p] = i

\* tok.apply_chat_template(messages, tokenize=False, add_generation_prompt=agp):
\* the rendered prompt, as its sequence of text pieces.
RECURSIVE RenderMessages(_)
RenderMessages(messages) ==
    IF messages = <<>> THEN <<>>
    ELSE <<"<|im_start|>", Head(messages).role, Head(messages).content, "<|im_end|>">>
         \o RenderMessages(Tail(messages))

apply_chat_template(messages, agp) ==
    RenderMessages(messages)
    \o (IF agp THEN <<"<|im_start|>", "assistant">> ELSE <<>>)

\* tok.encode(templ): an empty piece contributes no token.
RECURSIVE tok_encode(_)
tok_encode(templ) ==
    IF templ = <<>> THEN <<>>
    ELSE (IF Head(templ) = "" THEN <<>> ELSE <<Vocab[Head(templ)]>>)
         \o tok_encode(Tail(templ))

\* tok.decode(ids), for ids the vocabulary holds
RECURSIVE tok_decode(_)
tok_decode(ids) ==
    IF ids = <<>> THEN <<>>
    ELSE <<PieceOf(Head(ids))>> \o tok_decode(Tail(ids))

\* ids the capability cannot decode: the call raises
DecodeRaises(v) == ~IsList(v) \/ \E i \in 1..Len(v.l) : v.l[i] \notin VocabIds

\* a message list the capability cannot render: the call raises
RenderRaises(messages) == messages = <<>>

\* tok.bos_token_id / tok.eos_token_id: None or an id
None == [some |-> FALSE, id |-> 0]

Some(i) == [some |-> TRUE, id |-> i]

NoTok == [loaded |-> FALSE, bos_token_id |-> None, eos_token_id |-> None]

\* The tokenizers AutoTokenizer.from_pretrained may return.
Tokenizers ==
    [loaded : {TRUE},
     bos_token_id : {None, Some(Vocab["<|im_start|>"])},
     eos_token_id : {None, Some(Vocab["<|im_end|>"])}]

(* ------------------------------ requests ------------------------------- *)

\* self.path: "/" and name pieces, then k trailing slashes
Slashes(k) == [i \in 1..k |-> "/"]

BasePaths ==
    {<<>>, <<"/", "bos_id">>, <<"/", "eos_id">>, <<"/", "encode">>,
     <<"/", "decode">>, <<"/", "nope">>}

\* the request line always carries a path, so the empty path is left out
Paths == {b \o Slashes(k) : b \in BasePaths, k \in 0..MaxTrail} \ {<<>>}

\* str.rstrip("/")
RECURSIVE rstrip(_)
rstrip(p) ==
    IF p = <<>> THEN p
    ELSE IF p[Len(p)] = "/" THEN rstrip(SubSeq(p, 1, Len(p) - 1))
    ELSE p

\* Request bodies on the wire, by what json.loads(body.decode("utf-8")) makes
\* of them: an object with the fields f, a JSON value that is no object
\* ([1]), text that is no JSON (not json), bytes that are no UTF-8.
UserMsg == [role |-> "user", content |-> "hi"]

ObjBodies ==
    {[kind |-> "json_obj", f |-> o] :
        o \in [text : {Absent, JStr("ignored")},
               system : {Absent, JStr(""), JStr("sys")},
               messages : {Absent, JList(<<UserMsg>>), JList(<<>>), JStr("hi")},
               add_generation_prompt : {Absent, JBool(FALSE), JBool(TRUE)},
               token_ids : {Absent}]}
    \cup
    {[kind |-> "json_obj", f |-> [EmptyObj EXCEPT !.token_ids = v]] :
        v \in {JList(<<6, 7>>), JList(<<6, 99>>), JList(<<>>), JStr("hi")}}

OtherBodies ==
    {[kind |-> k, f |-> EmptyObj] : k \in {"json_list", "malformed", "badutf8"}}

Bodies == ObjBodies \cup OtherBodies

\* len(body) in bytes; every body of Bodies is non-empty
BodyLen(body) ==
    CASE body.kind = "malformed" -> 8
      [] body.kind = "badutf8" -> 1
      [] body.kind = "json_list" -> 3
      [] OTHER -> 2 + Cardinality({k \in FieldNames : Has(body.f, k)})

\* The Content-Length header: absent, the decimal text of n, or no number.
NoLength == [kind |-> "absent", n |-> 0]

Digits(n) == [kind |-> "digits", n |-> n]

NotANumber == [kind |-> "nonint", n |-> 0]

\* Content-Length headers under which the handler parses no body.
BodylessLengths == {NoLength, Digits(0), Digits(-1), NotANumber}

GetRequests ==
    [method : {"GET"}, path : Paths, content_length : {NoLength},
     body : {[kind |-> "json_obj", f |-> EmptyObj]}]
    \cup
    [method : {"GET"}, path : Paths, content_length : {NotANumber},
     body : {[kind |-> "malformed", f |-> EmptyObj]}]

PostRequests ==
    {[method |-> "POST", path |-> p, content_length |-> h, body |-> b] :
        p \in Paths, h \in BodylessLengths,
        b \in {[kind |-> "malformed", f |-> EmptyObj]}}
    \cup
    {[method |-> "POST", path |-> p, content_length |-> Digits(BodyLen(b)),
      body |-> b] : p \in Paths, b \in Bodies}

Requests == GetRequests \cup PostRequests

(* ------------------------------ responses ------------------------------ *)

\* nothing written to the connection (yet)
NoResponse == [code |-> 0, content_type |-> "", body |-> [nothing |-> TRUE]]

\* Request._write_json(obj, code)
write_json(obj, code) ==
    [code |-> code, content_type |-> "application/json; charset=utf-8",
     body |-> obj]

(* ------------------------- adapter TokenizerHttp ----------------------- *)

\* What an adapter operation did: the operation, its arguments, and the
\* message list it handed to the chat template.
NoCall ==
    [op |-> "none", text |-> Absent, system_content |-> Absent,
     messages |-> <<>>, add_generation_prompt |-> FALSE, token_ids |-> Absent]

\* TokenizerHttp.encode_from_text(text, system_content, add_generation_prompt);
\* fault: the capability raises during the call.
encode_from_text(text, system_content, add_generation_prompt, fault) ==
    LET messages ==
            (IF Truthy(system_content)
             THEN <<[role |-> "system", content |-> system_content.s]>>
             ELSE <<>>)
            \o <<[role |-> "user", content |-> text.s]>>
    IN  [raised |-> fault \/ RenderRaises(messages),
         value |-> tok_encode(apply_chat_template(messages, add_generation_prompt)),
         call |-> [NoCall EXCEPT !.op = "encode_from_text", !.text = text,
                                 !.system_content = system_content,
                                 !.messages = messages,
                                 !.add_generation_prompt = add_generation_prompt]]

\* TokenizerHttp.encode_from_messages(messages, add_generation_prompt)
encode_from_messages(messages, add_generation_prompt, fault) ==
    [raised |-> fault \/ RenderRaises(messages),
     value |-> tok_encode(apply_chat_template(messages, add_generation_prompt)),
     call |-> [NoCall EXCEPT !.op = "encode_from_messages",
                             !.messages = messages,
                             !.add_generation_prompt = add_generation_prompt]]

\* TokenizerHttp.decode(token_ids)
decode(token_ids, fault) ==
    [raised |-> fault \/ DecodeRaises(token_ids),
     value |-> IF DecodeRaises(token_ids) THEN <<>> ELSE tok_decode(token_ids.l),
     call |-> [NoCall EXCEPT !.op = "decode", !.token_ids = token_ids]]

\* TokenizerHttp.bos_id / eos_id
bos_id(tok) == tok.bos_token_id

eos_id(tok) == tok.eos_token_id

(* --------------------------- handler Request --------------------------- *)

\* What handling one request came to: the response written, the adapter
\* operation invoked (NoCall if none), whether that operation raised.
Outcome(resp, call, raised) == [resp |-> resp, call |-> call, raised |-> raised]

\* do_GET with the /bos_id branch reading the end-of-sequence id
do_GET_bos_reads_eos(self_path, ctx) ==
    LET stripped == rstrip(self_path)
        path == IF stripped = <<>> THEN <<"/">> ELSE stripped
    IN  IF path = <<"/">>
        THEN Outcome(write_json([status |-> "ok", model |-> ctx.model_disp], 200),
                     NoCall, FALSE)
        ELSE IF path = <<"/", "bos_id">>
        THEN LET bid == eos_id(ctx.tok)
             IN  Outcome(write_json([bos_id |-> IF bid = None THEN -1 ELSE bid.id], 200),
                         [NoCall EXCEPT !.op = "bos_id"], FALSE)
        ELSE IF path = <<"/", "eos_id">>
        THEN LET eid == eos_id(ctx.tok)
             IN  Outcome(write_json([eos_id |-> IF eid = None THEN -1 ELSE eid.id], 200),
                         [NoCall EXCEPT !.op = "eos_id"], FALSE)
        ELSE Outcome(write_json([error |-> <<"not found">>], 404), NoCall, FALSE)

\* do_GET matching self.path as received, without rstrip("/")
do_GET_no_rstrip(self_path, ctx) ==
    LET path == IF self_path = <<>> THEN <<"/">> ELSE self_path
    IN  IF path = <<"/">>
        THEN Outcome(write_json([status |-> "ok", model |-> ctx.model_disp], 200),
                     NoCall, FALSE)
        ELSE IF path = <<"/", "bos_id">>
        THEN LET bid == bos_id(ctx.tok)
             IN  Outcome(write_json([bos_id |-> IF bid = None THEN -1 ELSE bid.id], 200),
                         [NoCall EXCEPT !.op = "bos_id"], FALSE)
        ELSE IF path = <<"/", "eos_id">>
        THEN LET eid == eos_id(ctx.tok)
             IN  Outcome(write_json([eos_id |-> IF eid = None THEN -1 ELSE eid.id], 200),
                         [NoCall EXCEPT !.op = "eos_id"], FALSE)
        ELSE Outcome(write_json([error |-> <<"not found">>], 404), NoCall, FALSE)

\* Request.do_GET
do_GET(self_path, ctx) ==
    LET stripped == rstrip(self_path)
        path == IF stripped = <<>> THEN <<"/">> ELSE stripped
    IN  IF path = <<"/">>
        THEN Outcome(write_json([status |-> "ok", model |-> ctx.model_disp], 200),
                     NoCall, FALSE)
        ELSE IF path = <<"/", "bos_id">>
        THEN LET bid == bos_id(ctx.tok)
             IN  Outcome(write_json([bos_id |-> IF bid = None THEN -1 ELSE bid.id], 200),
                         [NoCall EXCEPT !.op = "bos_id"], FALSE)
        ELSE IF path = <<"/", "eos_id">>
        THEN LET eid == eos_id(ctx.tok)
             IN  Outcome(write_json([eos_id |-> IF eid = None THEN -1 ELSE eid.id], 200),
                         [NoCall EXCEPT !.op = "eos_id"], FALSE)
        ELSE Outcome(write_json([error |-> <<"not found">>], 404), NoCall, FALSE)

\* parse_body with the except clause falling back to an empty object
parse_body_swallowing(r, eof) ==
    LET h == r.content_length
        good(kind, f) == [ok |-> TRUE, kind |-> kind, f |-> f, detail |-> ""]
    IN  IF h.kind = "nonint" THEN good("dict", EmptyObj)
        ELSE LET ln == IF h.kind = "absent" THEN 0 ELSE h.n
             IN  IF ~(ln > 0) THEN good("dict", EmptyObj)
                 ELSE CASE r.body.kind \in {"badutf8", "malformed"} ->
                             good("dict", EmptyObj)
                        [] r.body.kind = "json_list" -> good("other", EmptyObj)
                        [] OTHER -> good("dict", r.body.f)

\* do_POST, the first try block: Content-Length, read, json.loads.
\* eof: the client closes its sending side, so a read to end-of-file returns
\* instead of timing out.  ok: no exception; req: the parsed value, a dict
\* (kind "dict", fields f) or any other JSON value (kind "other").
parse_body(r, eof) ==
    LET h == r.content_length
        bad(detail) == [ok |-> FALSE, kind |-> "none", f |-> EmptyObj,
                        detail |-> detail]
        good(kind, f) == [ok |-> TRUE, kind |-> kind, f |-> f, detail |-> ""]
    IN  IF h.kind = "nonint"
        THEN bad("invalid literal for int() with base 10")
        ELSE LET ln == IF h.kind = "absent" THEN 0 ELSE h.n
             IN  IF ln < 0 /\ ~eof THEN bad("timed out")
                 ELSE IF ~(ln > 0) THEN good("dict", EmptyObj)
                 ELSE CASE r.body.kind = "badutf8" ->
                             bad("'utf-8' codec can't decode byte")
                        [] r.body.kind = "malformed" ->
                             bad("Expecting value: line 1 column 1 (char 0)")
                        [] r.body.kind = "json_list" -> good("other", EmptyObj)
                        [] OTHER -> good("dict", r.body.f)

\* post_encode testing for "text" first, so that text wins over messages
post_encode_text_first(req, ctx, fault) ==
    IF req.kind # "dict"
    THEN Outcome(write_json([error |-> <<"encode failed: ",
                                         "object has no attribute 'get'">>], 500),
                 NoCall, FALSE)
    ELSE LET add_gen == Truthy(Get(req.f, "add_generation_prompt", JBool(TRUE)))
             res == IF ~Has(req.f, "text") /\ Has(req.f, "messages")
                       /\ IsList(req.f["messages"])
                    THEN encode_from_messages(req.f["messages"].l, add_gen, fault)
                    ELSE encode_from_text(
                             Get(req.f, "text", JStr("")),
                             Get(req.f, "system", JStr(ctx.default_system)),
                             add_gen, fault)
         IN  IF res.raised
             THEN Outcome(write_json([error |-> <<"encode failed: ",
                                                  "capability error">>], 500),
                          res.call, TRUE)
             ELSE Outcome(write_json([token_ids |-> res.value,
                                      len |-> Len(res.value)], 200),
                          res.call, FALSE)

\* post_encode with `req.get("system") or default`: an empty system field
\* falls back to the default system prompt
post_encode_empty_system_defaults(req, ctx, fault) ==
    IF req.kind # "dict"
    THEN Outcome(write_json([error |-> <<"encode failed: ",
                                         "object has no attribute 'get'">>], 500),
                 NoCall, FALSE)
    ELSE LET add_gen == Truthy(Get(req.f, "add_generation_prompt", JBool(TRUE)))
             res == IF Has(req.f, "messages") /\ IsList(req.f["messages"])
                    THEN encode_from_messages(req.f["messages"].l, add_gen, fault)
                    ELSE encode_from_text(
                             Get(req.f, "text", JStr("")),
                             IF Truthy(Get(req.f, "system", Absent))
                             THEN req.f["system"]
                             ELSE JStr(ctx.default_system),
                             add_gen, fault)
         IN  IF res.raised
             THEN Outcome(write_json([error |-> <<"encode failed: ",
                                                  "capability error">>], 500),
                          res.call, TRUE)
             ELSE Outcome(write_json([token_ids |-> res.value,
                                      len |-> Len(res.value)], 200),
                          res.call, FALSE)

\* do_POST, the branch path == "/encode"
post_encode(req, ctx, fault) ==
    IF req.kind # "dict"
    THEN Outcome(write_json([error |-> <<"encode failed: ",
                                         "object has no attribute 'get'">>], 500),
                 NoCall, FALSE)
    ELSE LET add_gen == Truthy(Get(req.f, "add_generation_prompt", JBool(TRUE)))
             res == IF Has(req.f, "messages") /\ IsList(req.f["messages"])
                    THEN encode_from_messages(req.f["messages"].l, add_gen, fault)
                    ELSE encode_from_text(
                             Get(req.f, "text", JStr("")),
                             Get(req.f, "system", JStr(ctx.default_system)),
                             add_gen, fault)
         IN  IF res.raised
             THEN Outcome(write_json([error |-> <<"encode failed: ",
                                                  "capability error">>], 500),
                          res.call, TRUE)
             ELSE Outcome(write_json([token_ids |-> res.value,
                                      len |-> Len(res.value)], 200),
                          res.call, FALSE)

\* post_decode without its try/except: a raising decode leaves the handler
\* and no response is written
post_decode_uncaught(req, ctx, fault) ==
    IF req.kind # "dict"
    THEN Outcome(NoResponse, NoCall, FALSE)
    ELSE LET res == decode(Get(req.f, "token_ids", JList(<<>>)), fault)
         IN  IF res.raised
             THEN Outcome(NoResponse, res.call, TRUE)
             ELSE Outcome(write_json([text |-> res.value], 200), res.call, FALSE)

\* do_POST, the branch path == "/decode"
post_decode(req, ctx, fault) ==
    IF req.kind # "dict"
    THEN Outcome(write_json([error |-> <<"decode failed: ",
                                         "object has no attribute 'get'">>], 500),
                 NoCall, FALSE)
    ELSE LET res == decode(Get(req.f, "token_ids", JList(<<>>)), fault)
         IN  IF res.raised
             THEN Outcome(write_json([error |-> <<"decode failed: ",
                                                  "capability error">>], 500),
                          res.call, TRUE)
             ELSE Outcome(write_json([text |-> res.value], 200), res.call, FALSE)

\* do_POST with the /decode branch written as the final else
do_POST_decode_as_else(r, ctx, fault, eof) ==
    LET req == parse_body(r, eof)
        path == r.path
    IN  IF ~req.ok
        THEN Outcome(write_json([error |-> <<"bad json: ", req.detail>>], 400),
                     NoCall, FALSE)
        ELSE IF path = <<"/", "encode">> THEN post_encode(req, ctx, fault)
        ELSE post_decode(req, ctx, fault)

\* Request.do_POST
do_POST(r, ctx, fault, eof) ==
    LET req == parse_body(r, eof)
        path == r.path
    IN  IF ~req.ok
        THEN Outcome(write_json([error |-> <<"bad json: ", req.detail>>], 400),
                     NoCall, FALSE)
        ELSE IF path = <<"/", "encode">> THEN post_encode(req, ctx, fault)
        ELSE IF path = <<"/", "decode">> THEN post_decode(req, ctx, fault)
        ELSE Outcome(write_json([error |-> <<"not found">>], 404), NoCall, FALSE)

\* BaseHTTPRequestHandler.handle_one_request: the method picks the handler.
handle_one_request(r, ctx, fault, eof) ==
    IF r.method = "GET" THEN do_GET(r.path, ctx) ELSE do_POST(r, ctx, fault, eof)

(* ------------------------- main and the server ------------------------- *)

VARIABLES
    mainpc,     \* where main() is: parse_args, load, bind, set_ctx, serve, exit
    exit_code,  \* None while the process runs, Some(code) once it has exited
    stderr,     \* the diagnostic main printed on the error stream, "" if none
    args,       \* the parsed arguments: content, model_id
    tok,        \* main's TokenizerHttp, NoTok before it is loaded
    srv,        \* the HTTPServer socket: none, bound, closed
    ctx,        \* srv.ctx, NoCtx before main sets it
    loop,       \* serve_forever: select (waiting for a connection) or handler
    conn,       \* per client: idle, queued, handling, incap, responded
    cur         \* per client: the request its handler read and the outcome

vars == <<mainpc, exit_code, stderr, args, tok, srv, ctx, loop, conn, cur>>

NoArgs == [content |-> "", model_id |-> ""]

\* --content / TS_SYSTEM (possibly empty) and --model_id / TS_MODEL_DIR
ArgsSet ==
    [content : {"dflt", ""},
     model_id : {"/opt/m5stack/data/tinyswallow-1.5b-ax630c"}]

NoCtx == [tok |-> NoTok, default_system |-> "", model_disp |-> ""]

NoRequest ==
    [method |-> "", path |-> <<>>, content_length |-> NoLength,
     body |-> [kind |-> "json_obj", f |-> EmptyObj]]

NoCur == [req |-> NoRequest, out |-> Outcome(NoResponse, NoCall, FALSE)]

Init ==
    /\ mainpc = "parse_args"
    /\ exit_code = None
    /\ stderr = ""
    /\ args = NoArgs
    /\ tok = NoTok
    /\ srv = "none"
    /\ ctx = NoCtx
    /\ loop = "select"
    /\ conn = [c \in Clients |-> "idle"]
    /\ cur = [c \in Clients |-> NoCur]

\* sys.exit(code), or the interpreter ending: sockets are closed, handlers gone
Exit(code) ==
    /\ mainpc' = "exit"
    /\ exit_code' = Some(code)
    /\ srv' = IF srv = "bound" THEN "closed" ELSE srv
    /\ loop' = "select"
    /\ conn' = [c \in Clients |-> "idle"]
    /\ cur' = [c \in Clients |-> NoCur]

\* main: ap.parse_args() returns the arguments
ParseArgs ==
    /\ mainpc = "parse_args"
    /\ \E a \in ArgsSet : args' = a
    /\ mainpc' = "load"
    /\ UNCHANGED <<exit_code, stderr, tok, srv, ctx, loop, conn, cur>>

\* main: ap.parse_args() rejects the command line (argparse exits with 2)
ParseArgsError ==
    /\ mainpc = "parse_args"
    /\ Exit(2)
    /\ UNCHANGED <<stderr, args, tok, ctx>>

\* main: TokenizerHttp(args.model_id) returns
LoadTokenizer ==
    /\ mainpc = "load"
    /\ \E t \in Tokenizers : tok' = t
    /\ mainpc' = "bind"
    /\ UNCHANGED <<exit_code, stderr, args, srv, ctx, loop, conn, cur>>

\* the except clause of main printing the diagnostic without sys.exit(2)
LoadTokenizerFails_no_exit ==
    /\ mainpc = "load"
    /\ stderr' = "[FATAL] tokenizer load failed"
    /\ mainpc' = "bind"
    /\ UNCHANGED <<exit_code, args, tok, srv, ctx, loop, conn, cur>>

\* main: TokenizerHttp(args.model_id) raises
LoadTokenizerFails ==
    /\ mainpc = "load"
    /\ stderr' = "[FATAL] tokenizer load failed"
    /\ Exit(2)
    /\ UNCHANGED <<args, tok, ctx>>

\* main: HTTPServer((host, port), Request) binds and listens
Bind ==
    /\ mainpc = "bind"
    /\ srv' = "bound"
    /\ mainpc' = "set_ctx"
    /\ UNCHANGED <<exit_code, stderr, args, tok, ctx, loop, conn, cur>>

\* main: HTTPServer(...) raises OSError (address in use); nothing catches it
BindFails ==
    /\ mainpc = "bind"
    /\ Exit(1)
    /\ UNCHANGED <<stderr, args, tok, ctx>>

\* main: srv.ctx = {...}; print the URL; enter serve_forever
SetCtx ==
    /\ mainpc = "set_ctx"
    /\ ctx' = [tok |-> tok, default_system |-> args.content,
               model_disp |-> args.model_id]
    /\ mainpc' = "serve"
    /\ UNCHANGED <<exit_code, stderr, args, tok, srv, loop, conn, cur>>

\* a client connects: the connection waits in the listener's backlog
Connect(c) ==
    /\ srv = "bound"
    /\ conn[c] = "idle"
    /\ conn' = [conn EXCEPT ![c] = "queued"]
    /\ UNCHANGED <<mainpc, exit_code, stderr, args, tok, srv, ctx, loop, cur>>

\* Accept as a ThreadingHTTPServer does it: the handler gets a thread of its
\* own and serve_forever goes on accepting
Accept_threaded(c) ==
    /\ mainpc = "serve"
    /\ conn[c] = "queued"
    /\ \E r \in Requests : cur' = [cur EXCEPT ![c] = [NoCur EXCEPT !.req = r]]
    /\ conn' = [conn EXCEPT ![c] = "handling"]
    /\ UNCHANGED <<mainpc, exit_code, stderr, args, tok, srv, ctx, loop>>

\* serve_forever: accept one connection and run its handler in this thread;
\* the handler reads the request line and headers
Accept(c) ==
    /\ mainpc = "serve"
    /\ loop = "select"
    /\ conn[c] = "queued"
    /\ \E r \in Requests : cur' = [cur EXCEPT ![c] = [NoCur EXCEPT !.req = r]]
    /\ conn' = [conn EXCEPT ![c] = "handling"]
    /\ loop' = "handler"
    /\ UNCHANGED <<mainpc, exit_code, stderr, args, tok, srv, ctx>>

\* Dispatch with /encode storing the request's system field as the new default
Dispatch_stores_system(c) ==
    /\ mainpc = "serve"
    /\ conn[c] = "handling"
    /\ \E fault \in BOOLEAN, eof \in BOOLEAN :
          LET out == handle_one_request(cur[c].req, ctx, fault, eof)
          IN  /\ cur' = [cur EXCEPT ![c].out = out]
              /\ conn' = [conn EXCEPT ![c] =
                            IF out.call.op = "none" THEN "responded" ELSE "incap"]
              /\ ctx' = IF out.call.op = "encode_from_text"
                        THEN [ctx EXCEPT !.default_system = out.call.system_content.s]
                        ELSE ctx
    /\ UNCHANGED <<mainpc, exit_code, stderr, args, tok, srv, loop>>

\* the handler runs do_GET / do_POST up to its adapter call, or, when it
\* makes none, to its response
Dispatch(c) ==
    /\ mainpc = "serve"
    /\ conn[c] = "handling"
    /\ \E fault \in BOOLEAN, eof \in BOOLEAN :
          LET out == handle_one_request(cur[c].req, ctx, fault, eof)
          IN  /\ cur' = [cur EXCEPT ![c].out = out]
              /\ conn' = [conn EXCEPT ![c] =
                            IF out.call.op = "none" THEN "responded" ELSE "incap"]
    /\ UNCHANGED <<mainpc, exit_code, stderr, args, tok, srv, ctx, loop>>

\* the adapter call returns or raises; the handler writes its response
CapabilityReturn(c) ==
    /\ mainpc = "serve"
    /\ conn[c] = "incap"
    /\ conn' = [conn EXCEPT ![c] = "responded"]
    /\ UNCHANGED <<mainpc, exit_code, stderr, args, tok, srv, ctx, loop, cur>>

\* the handler returns, the connection is closed, serve_forever loops
Finish(c) ==
    /\ mainpc = "serve"
    /\ conn[c] = "responded"
    /\ conn' = [conn EXCEPT ![c] = "idle"]
    /\ cur' = [cur EXCEPT ![c] = NoCur]
    /\ loop' = "select"
    /\ UNCHANGED <<mainpc, exit_code, stderr, args, tok, srv, ctx>>

\* KeyboardInterrupt in serve_forever: main passes and returns
Interrupt ==
    /\ mainpc = "serve"
    /\ Exit(0)
    /\ UNCHANGED <<stderr, args, tok, ctx>>

Next ==
    \/ ParseArgs
    \/ ParseArgsError
    \/ LoadTokenizer
    \/ LoadTokenizerFails
    \/ Bind
    \/ BindFails
    \/ SetCtx
    \/ Interrupt
    \/ \E c \in Clients : Connect(c)
    \/ \E c \in Clients : Accept(c)
    \/ \E c \in Clients : Dispatch(c)
    \/ \E c \in Clients : CapabilityReturn(c)
    \/ \E c \in Clients : Finish(c)

Spec == Init /\ [][Next]_vars

(* ------------------------------ properties ----------------------------- *)

Active(c) == conn[c] \in {"handling", "incap", "responded"}

\* the handler of c has reached its adapter call or its response
Dispatched(c) == conn[c] \in {"incap", "responded"}

Responded(c) == conn[c] = "responded"

NotFound(resp) == resp.code = 404 /\ resp.body = [error |-> <<"not found">>]

ErrorWith(resp, code, prefix) ==
    /\ resp.code = code
    /\ DOMAIN resp.body = {"error"}
    /\ resp.body.error[1] = prefix

BadJson(resp) == ErrorWith(resp, 400, "bad json: ")

\* the request matches no route of the routing table
Unrouted(r) ==
    IF r.method = "GET"
    THEN rstrip(r.path) \notin {<<>>, <<"/", "bos_id">>, <<"/", "eos_id">>}
    ELSE r.path \notin {<<"/", "encode">>, <<"/", "decode">>}

\* Content-Length absent or zero: the body is the empty object
BodyUnread(r) ==
    \/ r.content_length.kind = "absent"
    \/ r.content_length.kind = "digits" /\ r.content_length.n = 0

HasBody(r) == r.content_length.kind = "digits" /\ r.content_length.n > 0

\* Content-Length > 0 and the body is JSON
BodyParses(r) == HasBody(r) /\ r.body.kind \in {"json_obj", "json_list"}

\* Content-Length > 0 and the body is no JSON
BodyFails(r) == HasBody(r) /\ r.body.kind \in {"malformed", "badutf8"}

\* the fields of the object the body stands for ({} unless a body was parsed)
FieldsOf(r) ==
    IF HasBody(r) /\ r.body.kind = "json_obj" THEN r.body.f ELSE EmptyObj

IsPost(r, path) == r.method = "POST" /\ r.path = path

\* C1, as claimed: every request that matches no route gets 404
\* {"error":"not found"}, whatever its Content-Length header and body.
C1_UnroutedAlways404 ==
    \A c \in Clients :
        Responded(c) /\ Unrouted(cur[c].req) => NotFound(cur[c].out.resp)

\* C1, amended: a request that matches no route gets 404 {"error":"not found"}
\* if it is a GET, or a POST whose body stage succeeds (Content-Length absent
\* or zero, or a positive Content-Length with a JSON body); a POST whose
\* Content-Length is no integer or whose body is no JSON gets 400 "bad json: "
\* on every path, and no unrouted POST gets anything but one of the two.
C1_Unrouted404UnlessBadBody ==
    \A c \in Clients :
        LET r == cur[c].req
            resp == cur[c].out.resp
        IN  Responded(c) /\ Unrouted(r) =>
              /\ (r.method = "GET" \/ BodyUnread(r) \/ BodyParses(r)) => NotFound(resp)
              /\ (r.method = "POST"
                  /\ (BodyFails(r) \/ r.content_length.kind = "nonint")) => BadJson(resp)
              /\ NotFound(resp) \/ BadJson(resp)
              /\ cur[c].out.call = NoCall

C1_Witness ==
    \E c \in Clients :
        /\ Responded(c)
        /\ cur[c].req.method = "POST"
        /\ Unrouted(cur[c].req)
        /\ BodyParses(cur[c].req)
        /\ NotFound(cur[c].out.resp)

\* C2: a POST whose body (Content-Length > 0) is no JSON gets 400 with an
\* error starting "bad json: ", and its handler invokes no adapter operation.
C2_BadJson400NoDispatch ==
    \A c \in Clients :
        Dispatched(c) /\ cur[c].req.method = "POST" /\ BodyFails(cur[c].req) =>
            /\ Responded(c)
            /\ BadJson(cur[c].out.resp)
            /\ cur[c].out.call = NoCall

C2_Witness ==
    \E c \in Clients :
        /\ Responded(c)
        /\ IsPost(cur[c].req, <<"/", "encode">>)
        /\ BodyFails(cur[c].req)
        /\ cur[c].out.resp.code = 400

\* the body parsed to an object whose field messages is a list
MessagesList(r) == IsList(FieldsOf(r)["messages"])

\* add_generation_prompt of the request, true when the field is absent
AddGen(r) ==
    IF Has(FieldsOf(r), "add_generation_prompt")
    THEN FieldsOf(r)["add_generation_prompt"].b
    ELSE TRUE

\* C3: on POST /encode with a list-valued messages field the adapter call is
\* encode_from_messages(messages, add_generation_prompt) with
\* add_generation_prompt defaulting to true, the token ids returned are those
\* of the messages alone (no text, system or default system prompt enters),
\* and encode_from_text is called only without a list-valued messages field.
C3_MessagesTakePrecedence ==
    \A c \in Clients :
        LET r == cur[c].req
            out == cur[c].out
            msgs == FieldsOf(r)["messages"].l
        IN  Dispatched(c) /\ IsPost(r, <<"/", "encode">>) =>
              /\ MessagesList(r) =>
                   /\ out.call.op = "encode_from_messages"
                   /\ out.call.messages = msgs
                   /\ out.call.add_generation_prompt = AddGen(r)
                   /\ (Responded(c) /\ ~out.raised) =>
                        /\ out.resp.code = 200
                        /\ out.resp.body.token_ids =
                             tok_encode(apply_chat_template(msgs, AddGen(r)))
              /\ out.call.op = "encode_from_text" => ~MessagesList(r)

C3_Witness ==
    \E c \in Clients :
        /\ Responded(c)
        /\ IsPost(cur[c].req, <<"/", "encode">>)
        /\ MessagesList(cur[c].req)
        /\ Has(FieldsOf(cur[c].req), "text")
        /\ Has(FieldsOf(cur[c].req), "system")
        /\ cur[c].out.resp.code = 200

\* the message list the text path is to render for the request fields f
TextPathMessages(f) ==
    LET text == IF Has(f, "text") THEN f["text"].s ELSE ""
        systemContent == IF Has(f, "system") THEN f["system"].s ELSE args.content
    IN  (IF systemContent # ""
         THEN <<[role |-> "system", content |-> systemContent]>>
         ELSE <<>>)
        \o <<[role |-> "user", content |-> text]>>

\* C4: on POST /encode without a list-valued messages field (the empty object
\* of an absent or zero Content-Length included) the chat template renders
\* one system message with content systemContent, present iff systemContent
\* is non-empty, then exactly one user message with content text; text is the
\* field text or "", systemContent is the field system when present (even
\* when empty) and the default system prompt only when the field is absent.
C4_TextPathMessages ==
    \A c \in Clients :
        LET r == cur[c].req
            out == cur[c].out
        IN  Dispatched(c) /\ IsPost(r, <<"/", "encode">>) =>
              /\ ((BodyUnread(r) \/ (BodyParses(r) /\ r.body.kind = "json_obj"))
                  /\ ~MessagesList(r)) => out.call.op = "encode_from_text"
              /\ out.call.op = "encode_from_text" =>
                   out.call.messages = TextPathMessages(FieldsOf(r))

C4_Witness ==
    \E c \in Clients :
        /\ Responded(c)
        /\ IsPost(cur[c].req, <<"/", "encode">>)
        /\ Has(FieldsOf(cur[c].req), "system")
        /\ FieldsOf(cur[c].req)["system"].s = ""
        /\ args.content = "dflt"
        /\ cur[c].out.call.op = "encode_from_text"
        /\ cur[c].out.call.messages = <<[role |-> "user", content |-> "ignored"]>>

\* the response to GET /bos_id or /eos_id for the id the capability reports
IdResponse(resp, field, reported) ==
    /\ resp.code = 200
    /\ DOMAIN resp.body = {field}
    /\ resp.body[field] \in Int
    /\ resp.body[field] = -1 <=> reported = None
    /\ reported # None => resp.body[field] = reported.id

\* C5: GET /bos_id (GET /eos_id) answers 200 with an object of exactly one
\* integer field bos_id (eos_id), which is -1 iff the capability reports no
\* such token and is the reported id otherwise.
C5_SpecialIdSentinel ==
    \A c \in Clients :
        LET r == cur[c].req
            resp == cur[c].out.resp
        IN  Responded(c) /\ r.method = "GET" =>
              /\ r.path = <<"/", "bos_id">> =>
                   IdResponse(resp, "bos_id", tok.bos_token_id)
              /\ r.path = <<"/", "eos_id">> =>
                   IdResponse(resp, "eos_id", tok.eos_token_id)

C5_Witness ==
    \E c \in Clients :
        /\ Responded(c)
        /\ cur[c].req.method = "GET"
        /\ cur[c].req.path = <<"/", "bos_id">>
        /\ tok.bos_token_id = None
        /\ tok.eos_token_id # None
        /\ cur[c].out.resp.body = [bos_id |-> -1]

SlashedPostPaths == {<<"/", "encode", "/">>, <<"/", "decode", "/">>}

\* the GET half of C6: more trailing slashes do not change the response, and
\* a path of slashes only is answered as "/"
GetIgnoresTrailingSlashes(c) ==
    LET r == cur[c].req
        resp == cur[c].out.resp
    IN  Responded(c) /\ r.method = "GET" =>
          /\ \A k \in 0..(MaxTrail + 1) :
                do_GET(r.path \o Slashes(k), ctx).resp = resp
          /\ rstrip(r.path) = <<>> =>
                resp = write_json([status |-> "ok", model |-> args.model_id], 200)
          /\ rstrip(r.path) = <<"/", "bos_id">> =>
                resp.code = 200 /\ DOMAIN resp.body = {"bos_id"}
          /\ rstrip(r.path) = <<"/", "eos_id">> =>
                resp.code = 200 /\ DOMAIN resp.body = {"eos_id"}

\* C6, as claimed: a GET path with trailing slashes appended gets the response
\* of the path itself, whereas POST /encode/ and POST /decode/ get 404 and
\* never reach the adapter.
C6_AsymmetryAlways404 ==
    \A c \in Clients :
        /\ GetIgnoresTrailingSlashes(c)
        /\ (Dispatched(c) /\ cur[c].req.method = "POST"
            /\ cur[c].req.path \in SlashedPostPaths) =>
              /\ Responded(c)
              /\ cur[c].out.call = NoCall
              /\ NotFound(cur[c].out.resp)

\* C6, amended: a GET path with trailing slashes appended gets the response
\* of the path itself, whereas POST /encode/ and POST /decode/ never reach
\* the adapter and get 404 whenever the body stage succeeds (and 400
\* "bad json: " when it does not).
C6_PathNormalizationAsymmetric ==
    \A c \in Clients :
        /\ GetIgnoresTrailingSlashes(c)
        /\ (Dispatched(c) /\ cur[c].req.method = "POST"
            /\ cur[c].req.path \in SlashedPostPaths) =>
              /\ Responded(c)
              /\ cur[c].out.call = NoCall
              /\ (BodyUnread(cur[c].req) \/ BodyParses(cur[c].req)) =>
                    NotFound(cur[c].out.resp)
              /\ NotFound(cur[c].out.resp) \/ BadJson(cur[c].out.resp)

C6_Witness ==
    \E c \in Clients :
        /\ Responded(c)
        /\ IsPost(cur[c].req, <<"/", "encode", "/">>)
        /\ MessagesList(cur[c].req)
        /\ NotFound(cur[c].out.resp)

\* srv.ctx as main builds it from its arguments and the loaded tokenizer
StartupCtx ==
    [tok |-> tok, default_system |-> args.content, model_disp |-> args.model_id]

\* a failure of the adapter or capability, answered within the request
FailureAnswered(c) ==
    LET r == cur[c].req
        resp == cur[c].out.resp
    IN  Responded(c) /\ cur[c].out.raised =>
          /\ r.path = <<"/", "encode">> => ErrorWith(resp, 500, "encode failed: ")
          /\ r.path = <<"/", "decode">> => ErrorWith(resp, 500, "decode failed: ")
          /\ r.path \in {<<"/", "encode">>, <<"/", "decode">>}
          /\ mainpc = "serve"
          /\ exit_code = None

\* a response is what the handler makes of the request and the startup
\* context alone: nothing of earlier requests enters
ResponseFromRequestAlone(c) ==
    Responded(c) =>
        \E fault \in BOOLEAN, eof \in BOOLEAN :
            cur[c].out = handle_one_request(cur[c].req, StartupCtx, fault, eof)

\* the step after a failed request: the server is serving again, unchanged
\* (or it was interrupted, which ends it with code 0)
ServingAfterFailure(c) ==
    (Responded(c) /\ cur[c].out.raised /\ conn'[c] # "responded") =>
        /\ ctx' = ctx
        /\ tok' = tok
        /\ \/ mainpc' = "serve" /\ loop' = "select" /\ conn'[c] = "idle"
              /\ exit_code' = None
           \/ exit_code' = Some(0)

\* C7: while the server runs, a failure of the adapter or the capability is
\* caught within its request and answered 500 with an error starting
\* "encode failed: " (/encode) or "decode failed: " (/decode); it does not
\* end the server, which afterwards is serving again and answers a request
\* as it would have without the failures.
C7_FailuresContained ==
    /\ [](\A c \in Clients : FailureAnswered(c) /\ ResponseFromRequestAlone(c))
    /\ [][\A c \in Clients : ServingAfterFailure(c)]_vars

C7_Witness ==
    \E c \in Clients :
        /\ Responded(c)
        /\ cur[c].out.raised
        /\ IsPost(cur[c].req, <<"/", "decode">>)
        /\ cur[c].out.resp.code = 500

\* C8: a failed tokenizer load ends the process with code 2, no listener ever
\* bound and no request handled; a listener is bound and requests are served
\* only with the tokenizer loaded; leaving the serving state (the interrupt)
\* exits with code 0.
C8_StartupAndExit ==
    /\ [](/\ stderr # "" =>
               /\ exit_code = Some(2)
               /\ srv = "none"
               /\ \A c \in Clients : conn[c] = "idle"
          /\ srv # "none" => tok.loaded
          /\ \A c \in Clients : conn[c] # "idle" => tok.loaded /\ srv = "bound")
    /\ [][(mainpc = "serve" /\ mainpc' # "serve") => exit_code' = Some(0)]_vars
    /\ [][(srv = "none" /\ srv' # "none") => tok.loaded]_vars

C8_Witness ==
    /\ stderr = "[FATAL] tokenizer load failed"
    /\ exit_code = Some(2)
    /\ srv = "none"

\* C9: at most one request is in its handler, hence at most one is executing
\* a capability call, however many clients are connected.
C9_CapabilitySerialized ==
    /\ Cardinality({c \in Clients : Active(c)}) <= 1
    /\ Cardinality({c \in Clients : conn[c] = "incap"}) <= 1
    /\ (\E c \in Clients : Active(c)) => loop = "handler"

C9_Witness ==
    \E c, d \in Clients :
        /\ c # d
        /\ conn[c] = "incap"
        /\ conn[d] = "queued"

\* C10: srv.ctx is set once, before any request is handled, to the tokenizer,
\* default system prompt and model name of startup, and no request changes
\* it, an /encode with its own system field included.
C10_ContextImmutable ==
    /\ [](/\ ctx # NoCtx => ctx = StartupCtx
          /\ \A c \in Clients : Active(c) => ctx = StartupCtx /\ ctx.tok.loaded)
    /\ [][ctx # NoCtx => ctx' = ctx]_vars

C10_Witness ==
    \E c \in Clients :
        /\ Responded(c)
        /\ cur[c].out.call.op = "encode_from_text"
        /\ cur[c].out.call.system_content = JStr("sys")
        /\ ctx = StartupCtx
        /\ ctx.default_system = "dflt"

====
